---- MODULE Spec2Model ----
(***************************************************************************)
(* Reservations API of FastAPI-Gestione-Eventi (src/reservations/routers.py *)
(* and src/security.py) as a state machine.  The database holds the event  *)
(* table and the reservation table; every HTTP request is handled by a     *)
(* client slot whose program counter is the await point its handler has    *)
(* reached.  One action is one database round trip of one handler.         *)
(***************************************************************************)
EXTENDS Integers, FiniteSets, Sequences, TLC

\* ---------------------------------------------------------------- bounds

\* Requests served in one behaviour (over all client slots).
MaxRequests == 3

\* Users that hold credentials.
Users == {1, 2}

\* Unit counts a caller may ask for (num_guests of a payload).
Units == {5, 6}

\* Event ids a create payload may name; EventRows stores only some of them.
EventIds == {1, 2, 3}

\* Client slots of the full specification and of the create-only one.
Clients == {"c1", "c2"}
CreateClients == {"c1", "c2", "c3"}

\* ------------------------------------------------------------ the tables

\* Python's None where a number is expected.
None == 0

\* The event table after construction: event 1 seats 10, event 2 seats 5,
\* and no event has id 3.
EventRows ==
    { [id |-> 1, capacity |-> 10], [id |-> 2, capacity |-> 5] }

VARIABLES
    events,        \* the event table: rows [id, capacity]
    reservations,  \* the reservation table: rows [id, user_id, event_id, num_guests]
    next_id,       \* the reservation id sequence (autoincrement primary key)
    row_lock,      \* event id -> the client whose transaction holds FOR UPDATE, or ""
    req,           \* client slot -> the request it is serving
    issued         \* requests accepted so far

vars == << events, reservations, next_id, row_lock, req, issued >>

\* ------------------------------------------------------------ credentials

\* A bearer credential as JWTBearer sees it: no Authorization header, a
\* string that is no JWT, or a JWT signed with some secret for some user.
Credentials ==
    { [form |-> "missing", user_id |-> None, secret |-> "", expired |-> FALSE],
      [form |-> "malformed", user_id |-> None, secret |-> "", expired |-> FALSE] }
    \cup
    { [form |-> "jwt", user_id |-> u, secret |-> "jwt_secret", expired |-> FALSE] :
        u \in Users }
    \cup
    { [form |-> "jwt", user_id |-> 1, secret |-> "jwt_secret", expired |-> TRUE],
      [form |-> "jwt", user_id |-> 1, secret |-> "jwt_refresh_secret",
       expired |-> FALSE] }

\* decode_jwt that does not verify the exp claim.
decode_jwt_no_exp(token, is_refresh_token) ==
    LET secret == IF is_refresh_token THEN "jwt_refresh_secret" ELSE "jwt_secret"
    IN  IF token.form # "jwt" \/ token.secret # secret
        THEN [ok |-> FALSE, status |-> 401, user_id |-> None]
        ELSE [ok |-> TRUE, status |-> 0, user_id |-> token.user_id]

\* decode_jwt(token, is_refresh_token): the payload's user_id, or the status
\* of the HTTPException it raises.
decode_jwt(token, is_refresh_token) ==
    LET secret == IF is_refresh_token THEN "jwt_refresh_secret" ELSE "jwt_secret"
    IN  IF token.form # "jwt" \/ token.secret # secret
        THEN [ok |-> FALSE, status |-> 401, user_id |-> None]
        ELSE IF token.expired
        THEN [ok |-> FALSE, status |-> 401, user_id |-> None]
        ELSE [ok |-> TRUE, status |-> 0, user_id |-> token.user_id]

\* JWTBearer().__call__ with is_refresh_token = False.
JWTBearer(cred) ==
    IF cred.form = "missing"
    THEN [ok |-> FALSE, status |-> 403, user_id |-> None]
    ELSE decode_jwt(cred, FALSE)

\* --------------------------------------------------------------- helpers

RECURSIVE SumGuests(_)
\* sum(reservations.all()) over a set of rows
SumGuests(rows) ==
    IF rows = {} THEN 0
    ELSE LET r == CHOOSE x \in rows : TRUE
         IN  r.num_guests + SumGuests(rows \ {r})

\* select(Reservation.num_guests).where(Reservation.event_id == event_id)
ReservationsOfEvent(event_id) ==
    { r \in reservations : r.event_id = event_id }

\* select(Event).where(Event.id == event_id)
EventById(event_id) ==
    { e \in events : e.id = event_id }

\* OwnedReservation without the user_id condition of the where clause.
AnyReservation(reservation_id, user_id) ==
    { r \in reservations : r.id = reservation_id }

\* select(Reservation).where(id == reservation_id, user_id == user_id).first()
OwnedReservation(reservation_id, user_id) ==
    { r \in reservations : r.id = reservation_id /\ r.user_id = user_id }

\* select(Reservation).where(Reservation.user_id == user_id)
ReservationsOfUser(user_id) ==
    { r \in reservations : r.user_id = user_id }

\* ReservationCreate payloads.
CreatePayloads ==
    [event_id : EventIds, num_guests : Units]

\* ReservationUpdate payloads: num_guests is optional; a caller may leave it
\* out (sent = FALSE), send null (sent = TRUE, value = None) or send a count.
UpdatePayloads ==
    { [sent |-> FALSE, value |-> None] }
    \cup { [sent |-> TRUE, value |-> v] : v \in Units \cup {None} }

\* payload.model_dump(): every field of the schema, an unset one at its
\* default None.
model_dump(payload) ==
    [num_guests |-> IF payload.sent THEN payload.value ELSE None]

\* ApplyPatch without the "is not None" test: every dumped value is set.
ApplyPatchAlways(row, dumped) ==
    [row EXCEPT !.num_guests = dumped.num_guests]

\* The loop of update_reservation: setattr for every dumped value that is
\* not None.
ApplyPatch(row, dumped) ==
    IF dumped.num_guests # None
    THEN [row EXCEPT !.num_guests = dumped.num_guests]
    ELSE row

NoPayload == [event_id |-> None, num_guests |-> None]
NoPatch == [sent |-> FALSE, value |-> None]

Idle ==
    [pc |-> "idle", op |-> "none", user_id |-> None, reservation_id |-> None,
     payload |-> NoPayload, patch |-> NoPatch, current_reservations |-> 0,
     result |-> {}, status |-> 0, body |-> {}]

Respond(r, status, body) ==
    [r EXCEPT !.pc = "done", !.status = status, !.body = body]

\* Ids a path parameter may carry: every id the sequence has given out and
\* the next one, which no row has.
ReservationIds == 1..next_id

\* ------------------------------------------------------------------ Init

InitWith(slots) ==
    /\ events = EventRows
    /\ reservations = {}
    /\ next_id = 1
    /\ row_lock = [e \in {x.id : x \in EventRows} |-> ""]
    /\ req = [c \in slots |-> Idle]
    /\ issued = 0

Init == InitWith(Clients)

Accepts(c) ==
    /\ req[c].pc = "idle"
    /\ issued < MaxRequests

Authenticated(cred) == JWTBearer(cred).ok

Open(op, user_id) ==
    [Idle EXCEPT !.op = op, !.user_id = user_id]

\* The event row a create has fetched.
FetchedEvent(c) ==
    CHOOSE e \in events : e.id = req[c].payload.event_id

\* NotEnoughSeats with >= for >: a request that fills the event is refused.
NotEnoughSeatsOffByOne(current_reservations, num_guests, capacity) ==
    current_reservations + num_guests >= capacity

\* The condition of the capacity check of create_reservation.
NotEnoughSeats(current_reservations, num_guests, capacity) ==
    current_reservations + num_guests > capacity

\* --------------------------------------------------------------- actions

\* Depends(JWTBearer()) raises before the handler body runs.
reject_credentials(c, op, cred) ==
    /\ Accepts(c)
    /\ ~Authenticated(cred)
    /\ req' = [req EXCEPT ![c] = Respond(Open(op, None), JWTBearer(cred).status, {})]
    /\ issued' = issued + 1
    /\ UNCHANGED << events, reservations, next_id, row_lock >>

\* GET /reservations/
get_reservations(c, cred) ==
    /\ Accepts(c)
    /\ Authenticated(cred)
    /\ LET user_id == JWTBearer(cred).user_id
       IN  req' = [req EXCEPT ![c] =
                Respond(Open("list", user_id), 200, ReservationsOfUser(user_id))]
    /\ issued' = issued + 1
    /\ UNCHANGED << events, reservations, next_id, row_lock >>

\* POST /reservations/ : the request arrives and session.begin() opens the
\* transaction; the SELECT ... FOR UPDATE is the next await.
create_reservation_begin(c, cred, payload) ==
    /\ Accepts(c)
    /\ Authenticated(cred)
    /\ req' = [req EXCEPT ![c] =
            [Open("create", JWTBearer(cred).user_id) EXCEPT
                !.pc = "lock", !.payload = payload]]
    /\ issued' = issued + 1
    /\ UNCHANGED << events, reservations, next_id, row_lock >>

\* The SELECT ... FOR UPDATE finds no row: 404, the transaction rolls back.
create_reservation_no_event(c) ==
    /\ req[c].pc = "lock"
    /\ EventById(req[c].payload.event_id) = {}
    /\ req' = [req EXCEPT ![c] = Respond(@, 404, {})]
    /\ UNCHANGED << events, reservations, next_id, row_lock, issued >>

\* create_reservation_for_update with a plain SELECT: the row is read
\* whoever holds it.
create_reservation_plain_select(c) ==
    /\ req[c].pc = "lock"
    /\ EventById(req[c].payload.event_id) # {}
    /\ row_lock' = [row_lock EXCEPT ![req[c].payload.event_id] = c]
    /\ req' = [req EXCEPT ![c].pc = "sum"]
    /\ UNCHANGED << events, reservations, next_id, issued >>

\* create_reservation_for_update with one lock for the whole event table.
create_reservation_table_lock(c) ==
    /\ req[c].pc = "lock"
    /\ EventById(req[c].payload.event_id) # {}
    /\ \A e \in DOMAIN row_lock : row_lock[e] = ""
    /\ row_lock' = [row_lock EXCEPT ![req[c].payload.event_id] = c]
    /\ req' = [req EXCEPT ![c].pc = "sum"]
    /\ UNCHANGED << events, reservations, next_id, issued >>

\* The SELECT ... FOR UPDATE returns once no other transaction holds the
\* row; from here this transaction holds it.
create_reservation_for_update(c) ==
    /\ req[c].pc = "lock"
    /\ EventById(req[c].payload.event_id) # {}
    /\ row_lock[req[c].payload.event_id] = ""
    /\ row_lock' = [row_lock EXCEPT ![req[c].payload.event_id] = c]
    /\ req' = [req EXCEPT ![c].pc = "sum"]
    /\ UNCHANGED << events, reservations, next_id, issued >>

\* current_reservations = sum(reservations.all())
create_reservation_sum(c) ==
    /\ req[c].pc = "sum"
    /\ req' = [req EXCEPT ![c].pc = "check",
                          ![c].current_reservations =
                              SumGuests(ReservationsOfEvent(req[c].payload.event_id))]
    /\ UNCHANGED << events, reservations, next_id, row_lock, issued >>

\* create_reservation_reject that answers 400 and leaves the transaction
\* open, the row lock with it.
create_reservation_reject_no_rollback(c) ==
    /\ req[c].pc = "check"
    /\ NotEnoughSeats(req[c].current_reservations, req[c].payload.num_guests,
                      FetchedEvent(c).capacity)
    /\ req' = [req EXCEPT ![c] = Respond(@, 400, {})]
    /\ UNCHANGED << events, reservations, next_id, row_lock, issued >>

\* The capacity check fails: 400, the transaction rolls back and the row
\* lock goes with it.
create_reservation_reject(c) ==
    /\ req[c].pc = "check"
    /\ NotEnoughSeats(req[c].current_reservations, req[c].payload.num_guests,
                      FetchedEvent(c).capacity)
    /\ req' = [req EXCEPT ![c] = Respond(@, 400, {})]
    /\ row_lock' = [row_lock EXCEPT ![req[c].payload.event_id] = ""]
    /\ UNCHANGED << events, reservations, next_id, issued >>

\* create_reservation_commit that also keeps a seat counter on the event:
\* the admitted units are taken off its capacity.
create_reservation_commit_counting(c) ==
    /\ req[c].pc = "check"
    /\ ~NotEnoughSeats(req[c].current_reservations, req[c].payload.num_guests,
                       FetchedEvent(c).capacity)
    /\ LET new_reservation ==
               [id |-> next_id, user_id |-> req[c].user_id,
                event_id |-> req[c].payload.event_id,
                num_guests |-> req[c].payload.num_guests]
       IN  /\ reservations' = reservations \cup {new_reservation}
           /\ req' = [req EXCEPT ![c] = Respond(@, 201, {new_reservation})]
    /\ events' = { IF e.id = req[c].payload.event_id
                   THEN [e EXCEPT !.capacity = @ - req[c].payload.num_guests]
                   ELSE e : e \in events }
    /\ next_id' = next_id + 1
    /\ row_lock' = [row_lock EXCEPT ![req[c].payload.event_id] = ""]
    /\ UNCHANGED issued

\* session.add(new_reservation) and the commit at the end of the block.
create_reservation_commit(c) ==
    /\ req[c].pc = "check"
    /\ ~NotEnoughSeats(req[c].current_reservations, req[c].payload.num_guests,
                       FetchedEvent(c).capacity)
    /\ LET new_reservation ==
               [id |-> next_id, user_id |-> req[c].user_id,
                event_id |-> req[c].payload.event_id,
                num_guests |-> req[c].payload.num_guests]
       IN  /\ reservations' = reservations \cup {new_reservation}
           /\ req' = [req EXCEPT ![c] = Respond(@, 201, {new_reservation})]
    /\ next_id' = next_id + 1
    /\ row_lock' = [row_lock EXCEPT ![req[c].payload.event_id] = ""]
    /\ UNCHANGED << events, issued >>

\* GET /reservations/{reservation_id}
get_reservation(c, cred, reservation_id) ==
    /\ Accepts(c)
    /\ Authenticated(cred)
    /\ LET user_id == JWTBearer(cred).user_id
           result == OwnedReservation(reservation_id, user_id)
           r == [Open("get", user_id) EXCEPT
                    !.reservation_id = reservation_id, !.result = result]
       IN  req' = [req EXCEPT ![c] =
                IF result = {} THEN Respond(r, 404, {}) ELSE Respond(r, 200, result)]
    /\ issued' = issued + 1
    /\ UNCHANGED << events, reservations, next_id, row_lock >>

\* PATCH /reservations/{reservation_id} : the select and the None check.
update_reservation_select(c, cred, reservation_id, payload) ==
    /\ Accepts(c)
    /\ Authenticated(cred)
    /\ LET user_id == JWTBearer(cred).user_id
           result == OwnedReservation(reservation_id, user_id)
           r == [Open("update", user_id) EXCEPT
                    !.reservation_id = reservation_id, !.result = result,
                    !.patch = payload]
       IN  req' = [req EXCEPT ![c] =
                IF result = {} THEN Respond(r, 404, {}) ELSE [r EXCEPT !.pc = "upd"]]
    /\ issued' = issued + 1
    /\ UNCHANGED << events, reservations, next_id, row_lock >>

\* update_reservation_commit with the capacity check of create_reservation:
\* a patch that would take the event over its capacity is answered 400.
update_reservation_commit_checked(c) ==
    /\ req[c].pc = "upd"
    /\ \E stored \in reservations : stored.id = req[c].reservation_id
    /\ LET dumped == model_dump(req[c].patch)
           loaded == CHOOSE r \in req[c].result : TRUE
           stored == CHOOSE r \in reservations : r.id = req[c].reservation_id
           after == { IF r.id = req[c].reservation_id THEN ApplyPatch(r, dumped) ELSE r :
                        r \in reservations }
           event == CHOOSE e \in events : e.id = stored.event_id
           total == SumGuests({ r \in after : r.event_id = stored.event_id })
       IN  IF total > event.capacity
           THEN /\ reservations' = reservations
                /\ req' = [req EXCEPT ![c] = Respond(@, 400, {})]
           ELSE /\ reservations' = after
                /\ req' = [req EXCEPT ![c] = Respond(@, 200, {ApplyPatch(loaded, dumped)})]
    /\ UNCHANGED << events, next_id, row_lock, issued >>

\* update_reservation_commit that waits for the row of the reservation's
\* event: the commit goes through only while no create holds it.
update_reservation_commit_locked(c) ==
    /\ req[c].pc = "upd"
    /\ \E stored \in reservations :
            stored.id = req[c].reservation_id /\ row_lock[stored.event_id] = ""
    /\ LET dumped == model_dump(req[c].patch)
           loaded == CHOOSE r \in req[c].result : TRUE
       IN  /\ reservations' =
                { IF r.id = req[c].reservation_id THEN ApplyPatch(r, dumped) ELSE r :
                    r \in reservations }
           /\ req' = [req EXCEPT ![c] = Respond(@, 200, {ApplyPatch(loaded, dumped)})]
    /\ UNCHANGED << events, next_id, row_lock, issued >>

\* The setattr loop and session.commit(): the UPDATE writes the patched
\* columns of the row with the loaded id.
update_reservation_commit(c) ==
    /\ req[c].pc = "upd"
    /\ \E stored \in reservations : stored.id = req[c].reservation_id
    /\ LET dumped == model_dump(req[c].patch)
           loaded == CHOOSE r \in req[c].result : TRUE
       IN  /\ reservations' =
                { IF r.id = req[c].reservation_id THEN ApplyPatch(r, dumped) ELSE r :
                    r \in reservations }
           /\ req' = [req EXCEPT ![c] = Respond(@, 200, {ApplyPatch(loaded, dumped)})]
    /\ UNCHANGED << events, next_id, row_lock, issued >>

\* session.commit() when the loaded row was deleted in the meantime: the
\* UPDATE matches no row and the commit fails.
update_reservation_stale(c) ==
    /\ req[c].pc = "upd"
    /\ ~ \E stored \in reservations : stored.id = req[c].reservation_id
    /\ req' = [req EXCEPT ![c] = Respond(@, 500, {})]
    /\ UNCHANGED << events, reservations, next_id, row_lock, issued >>

\* DELETE /reservations/{reservation_id} : the select.  With no row the
\* handler returns (does not raise) the HTTPException, so the route's own
\* status code 204 is what the caller gets.
delete_reservation_select(c, cred, reservation_id) ==
    /\ Accepts(c)
    /\ Authenticated(cred)
    /\ LET user_id == JWTBearer(cred).user_id
           result == OwnedReservation(reservation_id, user_id)
           r == [Open("delete", user_id) EXCEPT
                    !.reservation_id = reservation_id, !.result = result]
       IN  req' = [req EXCEPT ![c] =
                IF result = {} THEN Respond(r, 204, {}) ELSE [r EXCEPT !.pc = "del"]]
    /\ issued' = issued + 1
    /\ UNCHANGED << events, reservations, next_id, row_lock >>

\* delete_reservation_commit that answers 204 with no DELETE flushed.
delete_reservation_commit_nothing(c) ==
    /\ req[c].pc = "del"
    /\ req' = [req EXCEPT ![c] = Respond(@, 204, {})]
    /\ UNCHANGED << events, reservations, next_id, row_lock, issued >>

\* session.delete(result) and session.commit()
delete_reservation_commit(c) ==
    /\ req[c].pc = "del"
    /\ reservations' = { r \in reservations : r.id # req[c].reservation_id }
    /\ req' = [req EXCEPT ![c] = Respond(@, 204, {})]
    /\ UNCHANGED << events, next_id, row_lock, issued >>

\* The response has been sent; the slot serves the next request.
deliver(c) ==
    /\ req[c].pc = "done"
    /\ req' = [req EXCEPT ![c] = Idle]
    /\ UNCHANGED << events, reservations, next_id, row_lock, issued >>

\* ------------------------------------------------------- specifications

Ops == {"list", "create", "get", "update", "delete"}

Next ==
    \/ \E c \in Clients, op \in Ops, cred \in Credentials :
            reject_credentials(c, op, cred)
    \/ \E c \in Clients, cred \in Credentials : get_reservations(c, cred)
    \/ \E c \in Clients, cred \in Credentials, payload \in CreatePayloads :
            create_reservation_begin(c, cred, payload)
    \/ \E c \in Clients : create_reservation_no_event(c)
    \/ \E c \in Clients : create_reservation_for_update(c)
    \/ \E c \in Clients : create_reservation_sum(c)
    \/ \E c \in Clients : create_reservation_reject(c)
    \/ \E c \in Clients : create_reservation_commit(c)
    \/ \E c \in Clients, cred \in Credentials : \E rid \in ReservationIds :
            get_reservation(c, cred, rid)
    \/ \E c \in Clients, cred \in Credentials, payload \in UpdatePayloads :
            \E rid \in ReservationIds :
                update_reservation_select(c, cred, rid, payload)
    \/ \E c \in Clients : update_reservation_commit(c)
    \/ \E c \in Clients : update_reservation_stale(c)
    \/ \E c \in Clients, cred \in Credentials : \E rid \in ReservationIds :
            delete_reservation_select(c, cred, rid)
    \/ \E c \in Clients : delete_reservation_commit(c)
    \/ \E c \in Clients : deliver(c)

Spec == Init /\ [][Next]_vars

\* Create requests only, one per client slot, on the empty store.
InitCreate == InitWith(CreateClients)

NextCreate ==
    \/ \E c \in CreateClients, cred \in Credentials, payload \in CreatePayloads :
            create_reservation_begin(c, cred, payload)
    \/ \E c \in CreateClients : create_reservation_no_event(c)
    \/ \E c \in CreateClients : create_reservation_for_update(c)
    \/ \E c \in CreateClients : create_reservation_sum(c)
    \/ \E c \in CreateClients : create_reservation_reject(c)
    \/ \E c \in CreateClients : create_reservation_commit(c)

SpecCreate == InitCreate /\ [][NextCreate]_vars

\* Create and delete requests only (no update), two client slots.
NextCreateDelete ==
    \/ \E c \in Clients, cred \in Credentials, payload \in CreatePayloads :
            create_reservation_begin(c, cred, payload)
    \/ \E c \in Clients : create_reservation_no_event(c)
    \/ \E c \in Clients : create_reservation_for_update(c)
    \/ \E c \in Clients : create_reservation_sum(c)
    \/ \E c \in Clients : create_reservation_reject(c)
    \/ \E c \in Clients : create_reservation_commit(c)
    \/ \E c \in Clients, cred \in Credentials : \E rid \in ReservationIds :
            delete_reservation_select(c, cred, rid)
    \/ \E c \in Clients : delete_reservation_commit(c)
    \/ \E c \in Clients : deliver(c)

SpecCreateDelete == Init /\ [][NextCreateDelete]_vars

\* A storage fault at the commit whose INSERT stays in the table: the
\* rollback is missing.
create_reservation_storage_fault_no_rollback(c) ==
    /\ req[c].op = "create"
    /\ req[c].pc \in {"lock", "sum", "check"}
    /\ reservations' =
            IF req[c].pc = "check"
            THEN reservations \cup
                    {[id |-> next_id, user_id |-> req[c].user_id,
                      event_id |-> req[c].payload.event_id,
                      num_guests |-> req[c].payload.num_guests]}
            ELSE reservations
    /\ next_id' = IF req[c].pc = "check" THEN next_id + 1 ELSE next_id
    /\ req' = [req EXCEPT ![c] = Respond(@, 500, {})]
    /\ row_lock' = [e \in DOMAIN row_lock |-> IF row_lock[e] = c THEN "" ELSE row_lock[e]]
    /\ UNCHANGED << events, issued >>

\* An await inside "async with session.begin()" raises (the SELECT ... FOR
\* UPDATE, the sum query, or the flush and commit at the end of the block):
\* the block rolls the transaction back, which drops its row lock and its
\* pending INSERT, and the caller gets a server error.
create_reservation_storage_fault(c) ==
    /\ req[c].op = "create"
    /\ req[c].pc \in {"lock", "sum", "check"}
    /\ req' = [req EXCEPT ![c] = Respond(@, 500, {})]
    /\ row_lock' = [e \in DOMAIN row_lock |-> IF row_lock[e] = c THEN "" ELSE row_lock[e]]
    /\ UNCHANGED << events, reservations, next_id, issued >>

\* The caller disconnects and the server cancels the handler at its await:
\* the CancelledError leaves "async with session.begin()" through its
\* rollback, and no response is sent.  (When the server does not cancel, the
\* handler takes its usual steps.)
create_reservation_cancelled(c) ==
    /\ req[c].op = "create"
    /\ req[c].pc \in {"lock", "sum", "check"}
    /\ req' = [req EXCEPT ![c] = Respond(@, None, {})]
    /\ row_lock' = [e \in DOMAIN row_lock |-> IF row_lock[e] = c THEN "" ELSE row_lock[e]]
    /\ UNCHANGED << events, reservations, next_id, issued >>

\* Create requests with storage faults and cancellations, one per client
\* slot, two slots.
NextFault ==
    \/ \E c \in Clients, cred \in Credentials, payload \in CreatePayloads :
            create_reservation_begin(c, cred, payload)
    \/ \E c \in Clients : create_reservation_no_event(c)
    \/ \E c \in Clients : create_reservation_for_update(c)
    \/ \E c \in Clients : create_reservation_sum(c)
    \/ \E c \in Clients : create_reservation_reject(c)
    \/ \E c \in Clients : create_reservation_commit(c)
    \/ \E c \in Clients : create_reservation_storage_fault(c)
    \/ \E c \in Clients : create_reservation_cancelled(c)

\* The event loop resumes a handler whose awaited database call can return,
\* and the database grants a released row lock to a transaction waiting for
\* it.
FairCreates ==
    \A c \in Clients :
        /\ WF_vars(create_reservation_no_event(c))
        /\ SF_vars(create_reservation_for_update(c))
        /\ WF_vars(create_reservation_sum(c))
        /\ WF_vars(create_reservation_reject(c))
        /\ WF_vars(create_reservation_commit(c))

SpecFault == Init /\ [][NextFault]_vars /\ FairCreates

\* ---------------------------------------------------------------- claims

\* The seats taken of an event: the sum of num_guests over its stored rows.
Taken(event_id) == SumGuests(ReservationsOfEvent(event_id))

\* A create whose transaction is between its FOR UPDATE and its end.
Holding(c) == req[c].op = "create" /\ req[c].pc \in {"sum", "check"}

\* A create that has been answered.
Answered(c) == req[c].op = "create" /\ req[c].pc = "done"

\* C1: in every reachable state, for every event the sum of num_guests over
\* the reservations stored against it is at most the event's capacity.
C1_CapacityNeverExceeded ==
    \A e \in events : Taken(e.id) <= e.capacity

\* C2: two creates for the same event are serialized: while one holds the
\* event row (from its FOR UPDATE to its commit or rollback) every other
\* create for that event is still before its FOR UPDATE or already answered,
\* and the row lock names the holder.
C2_CreatesSerialized ==
    /\ \A c, d \in DOMAIN req :
            (c # d /\ Holding(c) /\ Holding(d))
                => req[c].payload.event_id # req[d].payload.event_id
    /\ \A c \in DOMAIN req :
            Holding(c) <=> (\E e \in DOMAIN row_lock :
                                row_lock[e] = c /\ req[c].payload.event_id = e)

\* C2 witness: one create holds event 1 after its sum read while another
\* create for event 1 waits at its FOR UPDATE.
C2_Witness ==
    \E c, d \in DOMAIN req :
        /\ c # d
        /\ req[c].op = "create" /\ req[c].pc = "check"
        /\ req[d].op = "create" /\ req[d].pc = "lock"
        /\ req[c].payload.event_id = 1 /\ req[d].payload.event_id = 1

\* The creates for an event, and the answered ones among them by status.
CreatesOn(event_id) ==
    { c \in DOMAIN req : req[c].op = "create" /\ req[c].payload.event_id = event_id }

AnsweredWith(event_id, status) ==
    { c \in CreatesOn(event_id) : req[c].pc = "done" /\ req[c].status = status }

\* C3: with creates only, on every event the admitted creates are exactly
\* the stored rows and their units sum to at most the capacity; every other
\* answered create for it got 400 and would not fit beside the admitted
\* ones; and when the only creates for event 1 (capacity 10) are two of 6
\* units and both are answered, one got 201, the other 400 and 6 is stored.
C3_ConcurrentCreatesAdmitSubset ==
    \A e \in events :
        /\ ReservationsOfEvent(e.id) =
                UNION { req[c].body : c \in AnsweredWith(e.id, 201) }
        /\ Cardinality(ReservationsOfEvent(e.id)) =
                Cardinality(AnsweredWith(e.id, 201))
        /\ Taken(e.id) <= e.capacity
        /\ \A c \in CreatesOn(e.id) :
                req[c].pc = "done" => req[c].status \in {201, 400}
        /\ \A c \in AnsweredWith(e.id, 400) :
                Taken(e.id) + req[c].payload.num_guests > e.capacity
        /\ \A c, d \in CreatesOn(e.id) :
                ( /\ c # d /\ CreatesOn(e.id) = {c, d}
                  /\ e.capacity = 10
                  /\ req[c].payload.num_guests = 6 /\ req[d].payload.num_guests = 6
                  /\ req[c].pc = "done" /\ req[d].pc = "done" )
                => /\ Cardinality(AnsweredWith(e.id, 201)) = 1
                   /\ Cardinality(AnsweredWith(e.id, 400)) = 1
                   /\ Taken(e.id) = 6

\* C3 witness: the only creates for event 1 are two of 6 units and both are
\* answered: one with 201, the other, which read the 6 stored by the first,
\* with 400.
C3_Witness ==
    \E c, d \in DOMAIN req :
        /\ c # d /\ CreatesOn(1) = {c, d}
        /\ req[c].payload.num_guests = 6 /\ req[d].payload.num_guests = 6
        /\ req[c].pc = "done" /\ req[c].status = 201
        /\ req[d].pc = "done" /\ req[d].status = 400
        /\ req[d].current_reservations = 6

\* The steps a create that has begun can take.
CreateProgress(c) ==
    \/ create_reservation_for_update(c)
    \/ create_reservation_sum(c)
    \/ create_reservation_reject(c)
    \/ create_reservation_commit(c)

\* C4: a create for an existing event whose row no other transaction holds
\* can take its next step (acquire the row, read the sum, commit or reject)
\* whatever rows of other events are held by other creates.
C4_DistinctEventsDoNotBlock ==
    \A c \in DOMAIN req :
        ( /\ req[c].op = "create" /\ req[c].pc \in {"lock", "sum", "check"}
          /\ EventById(req[c].payload.event_id) # {}
          /\ \A d \in DOMAIN req \ {c} :
                Holding(d) => req[d].payload.event_id # req[c].payload.event_id )
        => ENABLED CreateProgress(c)

\* C4 witness: two creates hold the rows of two different events at once.
C4_Witness ==
    \E c, d \in DOMAIN req :
        /\ Holding(c) /\ Holding(d)
        /\ req[c].payload.event_id = 1 /\ req[d].payload.event_id = 2
        /\ row_lock[1] = c /\ row_lock[2] = d

\* The stored row with an id, and whether a row has it.
Stored(reservation_id) ==
    { r \in reservations : r.id = reservation_id }

\* What get, update and delete answer for an id no row has.
MissingIdStatus(op) == IF op = "delete" THEN 204 ELSE 404

\* Client c receives a get, update or delete of an authenticated user in
\* this step.
LookupArrives(c) ==
    /\ req[c].pc = "idle"
    /\ req'[c].op \in {"get", "update", "delete"}
    /\ req'[c].user_id \in Users

\* The id is stored and owned by someone else / not stored at all.
OwnedByAnother(reservation_id, user_id) ==
    \E r \in reservations : r.id = reservation_id /\ r.user_id # user_id

\* C5: a get, update or delete by user A of a reservation owned by another
\* user is answered exactly as the same operation on an id no row has (the
\* request ends at its lookup with the same status and an empty body) and
\* changes nothing in the store.
C5_OwnershipIsolation ==
    [][ \A c \in DOMAIN req :
            ( /\ LookupArrives(c)
              /\ \/ OwnedByAnother(req'[c].reservation_id, req'[c].user_id)
                 \/ Stored(req'[c].reservation_id) = {} )
            => /\ req'[c].pc = "done"
               /\ req'[c].status = MissingIdStatus(req'[c].op)
               /\ req'[c].body = {}
               /\ req'[c].result = {}
               /\ UNCHANGED << events, reservations, next_id, row_lock >> ]_vars

\* C5 witness: an update and a delete, each of a stored reservation that
\* another user owns, have been answered.
C5_Witness ==
    \E c, d \in DOMAIN req :
        /\ req[c].op = "update" /\ req[c].pc = "done"
        /\ OwnedByAnother(req[c].reservation_id, req[c].user_id)
        /\ req[d].op = "delete" /\ req[d].pc = "done"
        /\ OwnedByAnother(req[d].reservation_id, req[d].user_id)

\* C6: a delete that found no reservation of the requester with the id is
\* answered 404, and 204 is answered only when a reservation was found.
C6_DeleteMissingIs404 ==
    \A c \in DOMAIN req :
        (req[c].op = "delete" /\ req[c].pc = "done" /\ req[c].user_id \in Users)
        => /\ req[c].result = {} => req[c].status = 404
           /\ req[c].status = 204 => req[c].result # {}

\* Create c is answered with a rejection that left no trace: the store and
\* the id sequence are as before and c holds no row.
RejectedClean(c, status) ==
    /\ req'[c].pc = "done"
    /\ req'[c].status = status
    /\ req'[c].body = {}
    /\ reservations' = reservations
    /\ next_id' = next_id
    /\ events' = events
    /\ \A e \in DOMAIN row_lock : row_lock'[e] # c

\* C7: a create whose event id is not stored ends with 404, and one whose
\* sum read plus its units exceeds the capacity ends with 400; either way the
\* reservations are what they were, and the create holds no event row.
C7_RejectedCreateHasNoEffect ==
    [][ \A c \in DOMAIN req :
            (req[c].op = "create" /\ req'[c] # req[c])
            => /\ ( req[c].pc = "lock" /\ EventById(req[c].payload.event_id) = {} )
                    => RejectedClean(c, 404)
               /\ ( /\ req[c].pc = "check"
                    /\ req[c].current_reservations + req[c].payload.num_guests
                            > FetchedEvent(c).capacity )
                    => RejectedClean(c, 400)
               /\ ( req[c].pc # "done" /\ req'[c].pc = "done"
                    /\ req'[c].status # 201 )
                    => \/ RejectedClean(c, 404)
                       \/ RejectedClean(c, 400) ]_vars

\* C7 witness: one create was answered 400 and another 404 while a
\* reservation is stored and no event row is held.
C7_Witness ==
    \E c, d \in DOMAIN req :
        /\ Answered(c) /\ req[c].status = 400
        /\ Answered(d) /\ req[d].status = 404
        /\ reservations # {}
        /\ \A e \in DOMAIN row_lock : row_lock[e] = ""

\* C8: the sum is read from the stored rows of the event while the create
\* holds the event row; the create is accepted exactly when that sum plus
\* its units is at most the capacity; an accepted create stores exactly one
\* new row, owned by the authenticated user, with the requested event and
\* units, and a refused one stores nothing.
C8_AdmissionIsExact ==
    [][ \A c \in DOMAIN req :
            /\ ( req[c].pc = "sum" /\ req'[c].pc # "sum" )
                => /\ row_lock[req[c].payload.event_id] = c
                   /\ req'[c].pc = "check"
                   /\ req'[c].current_reservations = Taken(req[c].payload.event_id)
            /\ ( req[c].pc = "check" /\ req'[c].pc # "check" )
                => LET fits == req[c].current_reservations + req[c].payload.num_guests
                                    <= FetchedEvent(c).capacity
                       new == reservations' \ reservations
                   IN  /\ req'[c].pc = "done"
                       /\ fits <=> req'[c].status = 201
                       /\ ~fits <=> req'[c].status = 400
                       /\ reservations \subseteq reservations'
                       /\ ~fits => new = {}
                       /\ fits =>
                            /\ Cardinality(new) = 1
                            /\ req'[c].body = new
                            /\ \A r \in new :
                                /\ r.user_id = req[c].user_id
                                /\ r.event_id = req[c].payload.event_id
                                /\ r.num_guests = req[c].payload.num_guests
                                /\ Stored(r.id) = {} ]_vars

\* C8 witness: a create that read 5 and asked 5 of event 1's 10 seats was
\* accepted and the event is full, and one that read 5 and asked 6 (one
\* seat too many) was refused.
C8_Witness ==
    \E c, d \in DOMAIN req :
        /\ Answered(c) /\ req[c].status = 201
        /\ req[c].payload.event_id = 1 /\ req[c].payload.num_guests = 5
        /\ req[c].current_reservations = 5
        /\ Taken(1) = 10
        /\ Answered(d) /\ req[d].status = 400
        /\ req[d].payload.event_id = 1
        /\ req[d].current_reservations + req[d].payload.num_guests = 11

\* C9: the commit of an owner's update that carries a unit count writes
\* that count to the stored row and answers 200, whatever total results for
\* the event.
C9_UpdateNeverRevalidates ==
    [][ \A c \in DOMAIN req :
            ( /\ req[c].pc = "upd" /\ req'[c] # req[c]
              /\ Stored(req[c].reservation_id) # {}
              /\ req[c].patch.sent /\ req[c].patch.value # None )
            => /\ req'[c].pc = "done"
               /\ req'[c].status = 200
               /\ \A r \in Stored(req[c].reservation_id) :
                    [r EXCEPT !.num_guests = req[c].patch.value] \in reservations' ]_vars

\* C9 witness: an update was answered 200 and the event of the updated row
\* now stores more units than its capacity.
C9_Witness ==
    \E c \in DOMAIN req :
        /\ req[c].op = "update" /\ req[c].pc = "done" /\ req[c].status = 200
        /\ \E r \in Stored(req[c].reservation_id), e \in events :
                /\ e.id = r.event_id
                /\ r.num_guests = req[c].patch.value
                /\ Taken(e.id) > e.capacity

\* The commit of update c in this step: the row with the id becomes `row`
\* with num_guests `value`, and nothing else in the tables changes.
UpdateWrites(c, row, value) ==
    /\ reservations' =
            (reservations \ {row}) \cup {[row EXCEPT !.num_guests = value]}
    /\ events' = events

\* C10 as stated: the commit of an update sets every field the patch carries
\* to the carried value, null included (so null differs from absent), leaves
\* a field the patch does not carry as it is, and changes no other row and
\* no event.
C10_PatchSetsEveryPresentField ==
    [][ \A c \in DOMAIN req :
            ( req[c].pc = "upd" /\ req'[c].pc = "done" /\ req'[c].status = 200 )
            => \A row \in Stored(req[c].reservation_id) :
                    UpdateWrites(c, row,
                        IF req[c].patch.sent THEN req[c].patch.value
                        ELSE row.num_guests) ]_vars

\* C10 amended: the commit of an update sets every field the patch carries
\* with a value that is not null to that value, leaves a field that is
\* absent or null as it is, and changes no other row and no event.
C10_PatchSetsNonNullFields ==
    [][ \A c \in DOMAIN req :
            ( req[c].pc = "upd" /\ req'[c].pc = "done" /\ req'[c].status = 200 )
            => \A row \in Stored(req[c].reservation_id) :
                    UpdateWrites(c, row,
                        IF req[c].patch.sent /\ req[c].patch.value # None
                        THEN req[c].patch.value
                        ELSE row.num_guests) ]_vars

\* C10 witness: an update that carried null was answered 200 and the row
\* still has its unit count, and an update that carried a count was
\* answered 200 and the row has that count.
C10_Witness ==
    \E c, d \in DOMAIN req :
        /\ req[c].op = "update" /\ req[c].pc = "done" /\ req[c].status = 200
        /\ req[c].patch.sent /\ req[c].patch.value = None
        /\ \E r \in Stored(req[c].reservation_id) : r.num_guests # None
        /\ req[d].op = "update" /\ req[d].pc = "done" /\ req[d].status = 200
        /\ req[d].patch.sent /\ req[d].patch.value # None
        /\ \E r \in Stored(req[d].reservation_id) : r.num_guests = req[d].patch.value


\* A delete that found its row and has committed.
Deleted(c) ==
    /\ req[c].op = "delete" /\ req[c].pc = "done"
    /\ req[c].status = 204 /\ req[c].result # {}

\* C11: once a delete has committed, no row with the deleted id is stored
\* (ids are not given out twice), so the sum a create reads from then on,
\* which is the sum over the rows stored at that read, is without the
\* deleted units; and a create whose sum plus its units is at most the
\* capacity is admitted.
C11_ReleasedUnitsAvailable ==
    /\ [](\A c \in Clients : Deleted(c) => Stored(req[c].reservation_id) = {})
    /\ [][ \A d \in Clients :
            /\ ( req[d].pc = "sum" /\ req'[d].pc = "check" )
                => /\ req'[d].current_reservations =
                        SumGuests({ r \in reservations :
                                        r.event_id = req[d].payload.event_id })
                   /\ \A c \in Clients : Deleted(c) =>
                        req[c].result \cap reservations = {}
            /\ ( /\ req[d].pc = "check" /\ req'[d] # req[d]
                 /\ req[d].current_reservations + req[d].payload.num_guests
                        <= FetchedEvent(d).capacity )
                => req'[d].status = 201 ]_vars

\* C11 witness: event 2 (capacity 5) held a reservation of 5; its delete
\* has committed, and a create of 5 for event 2 then read 0 and was admitted.
C11_Witness ==
    \E c, d \in DOMAIN req :
        /\ Deleted(c)
        /\ \E r \in req[c].result : r.event_id = 2 /\ r.num_guests = 5
        /\ Answered(d) /\ req[d].status = 201
        /\ req[d].payload.event_id = 2 /\ req[d].payload.num_guests = 5
        /\ req[d].current_reservations = 0
        /\ Taken(2) = 5


\* A credential that is missing, malformed, expired or not signed with the
\* access-token secret.
BadCredential(cred) ==
    \/ cred.form # "jwt"
    \/ cred.expired
    \/ cred.secret # "jwt_secret"

\* No handler starts for the credential in the current state.
NoHandlerStarts(c, cred) ==
    /\ ~ ENABLED get_reservations(c, cred)
    /\ \A payload \in CreatePayloads :
            ~ ENABLED create_reservation_begin(c, cred, payload)
    /\ \A rid \in ReservationIds :
            /\ ~ ENABLED get_reservation(c, cred, rid)
            /\ ~ ENABLED delete_reservation_select(c, cred, rid)
            /\ \A payload \in UpdatePayloads :
                    ~ ENABLED update_reservation_select(c, cred, rid, payload)

\* C12: for a slot that accepts a request and a bad credential, no handler
\* can start, only the rejection; a
\* request that ends without a user id is answered 401 or 403 in the step it
\* arrives, with no row read into it, and leaves the tables, the id sequence
\* and the row locks as they were; every request past its arrival has a
\* user id.
C12_BadCredentialsRejected ==
    /\ [](\A c \in Clients, cred \in Credentials :
            (BadCredential(cred) /\ Accepts(c)) =>
                /\ NoHandlerStarts(c, cred)
                /\ \A op \in Ops : ENABLED reject_credentials(c, op, cred))
    /\ [](\A c \in Clients :
            /\ req[c].pc \notin {"idle", "done"} => req[c].user_id \in Users
            /\ (\E e \in DOMAIN row_lock : row_lock[e] = c) => req[c].user_id \in Users)
    /\ [][ \A c \in Clients :
            ( req[c].pc = "idle" /\ req'[c].pc # "idle" /\ req'[c].user_id \notin Users )
            => /\ req'[c].pc = "done"
               /\ req'[c].status \in {401, 403}
               /\ req'[c].body = {} /\ req'[c].result = {}
               /\ UNCHANGED << events, reservations, next_id, row_lock >> ]_vars

\* C12 witness: with a reservation stored, a create without credentials was
\* answered 403 and a delete with a bad token 401.
C12_Witness ==
    \E c, d \in DOMAIN req :
        /\ req[c].op = "create" /\ req[c].pc = "done" /\ req[c].status = 403
        /\ req[d].op = "delete" /\ req[d].pc = "done" /\ req[d].status = 401
        /\ req[c].user_id = None /\ req[d].user_id = None
        /\ reservations # {}


\* C13: with create and delete only, in every reachable state every event
\* stores at most as many units as its capacity.
C13_CreateDeleteKeepCapacity ==
    \A e \in events :
        SumGuests({ r \in reservations : r.event_id = e.id }) <= e.capacity

\* C13 witness: a create has read 5 for its event and not yet committed, and
\* a delete of that event's reservation has committed since (the event now
\* stores 0).
C13_Witness ==
    \E c, d \in DOMAIN req :
        /\ req[c].op = "create" /\ req[c].pc = "check"
        /\ req[c].current_reservations = 5
        /\ Taken(req[c].payload.event_id) = 0
        /\ Deleted(d)
        /\ \E r \in req[d].result : r.event_id = req[c].payload.event_id


\* Create c holds no event row.
HoldsNothing(c) == \A e \in DOMAIN row_lock : row_lock[e] # c

\* C14: a create that has ended (201, 400, 404, storage fault, cancelled
\* caller) holds no event row, and under fair scheduling every create that
\* has begun, waiting for the row or holding it, eventually ends and holds
\* no row.
C14_HoldAlwaysReleased ==
    /\ [](\A c \in Clients : req[c].pc = "done" => HoldsNothing(c))
    /\ \A c \in Clients :
            (req[c].pc \in {"lock", "sum", "check"})
                ~> (req[c].pc = "done" /\ HoldsNothing(c))

\* C14 witness: two creates for event 2 have ended, one cancelled after it
\* had read the sum under the row lock, the other admitted, and no row is
\* held.
C14_Witness ==
    \E c, d \in DOMAIN req :
        /\ Answered(c) /\ req[c].status = None /\ req[c].payload.event_id = 2
        /\ Answered(d) /\ req[d].status = 201 /\ req[d].payload.event_id = 2
        /\ \A e \in DOMAIN row_lock : row_lock[e] = ""

\* C15: the step in which a create ends by a storage fault leaves the
\* reservations and the id sequence as they were, answers 500 with no
\* reservation and drops the row lock; the reservations change only in the
\* step that answers 201; and every stored row is the row of a create that
\* was answered 201.
C15_StorageFaultAbortsUnit ==
    /\ [](\A e \in events :
            ReservationsOfEvent(e.id) =
                UNION { req[c].body : c \in AnsweredWith(e.id, 201) })
    /\ [][ \A c \in Clients :
            /\ ( req[c].pc # "done" /\ req'[c].pc = "done" /\ req'[c].status = 500 )
                => /\ reservations' = reservations
                   /\ next_id' = next_id
                   /\ events' = events
                   /\ req'[c].body = {}
                   /\ \A e \in DOMAIN row_lock : row_lock'[e] # c
            /\ ( req'[c] # req[c] /\ reservations' # reservations )
                => req'[c].status = 201 ]_vars

\* C15 witness: a create that had read a sum of 5 under the row lock ended
\* by a storage fault; 5 units are still what its event stores and no row is
\* held.
C15_Witness ==
    \E c \in DOMAIN req :
        /\ Answered(c) /\ req[c].status = 500
        /\ req[c].current_reservations = 5
        /\ Taken(req[c].payload.event_id) = 5
        /\ \A e \in DOMAIN row_lock : row_lock[e] = ""


\* C16: the creates of one event decide in the order they get its row: none
\* gets the row while another holds it, the event's rows do not change
\* while a create holds the row without ending, so the sum it read is the
\* event's stored sum when it decides, and it is admitted exactly when that
\* stored sum plus its units is at most the capacity (the outcome of running
\* it alone after the earlier holders); admitted rows get increasing ids and
\* are never removed or altered.
C16_DecisionsInHoldOrder ==
    /\ [](\A c \in CreateClients :
            req[c].pc = "check"
                => req[c].current_reservations = Taken(req[c].payload.event_id))
    /\ [][ /\ \A c \in CreateClients :
                /\ ( req[c].pc = "lock" /\ req'[c].pc = "sum" )
                    => \A d \in CreateClients \ {c} :
                            Holding(d) =>
                                req[d].payload.event_id # req[c].payload.event_id
                /\ ( req[c].pc \in {"sum", "check"} /\ req'[c].pc \in {"sum", "check"} )
                    => { r \in reservations' : r.event_id = req[c].payload.event_id }
                            = ReservationsOfEvent(req[c].payload.event_id)
                /\ ( req[c].pc = "check" /\ req'[c].pc = "done" )
                    => ( req'[c].status = 201
                            <=> Taken(req[c].payload.event_id)
                                    + req[c].payload.num_guests
                                        <= FetchedEvent(c).capacity )
           /\ reservations \subseteq reservations'
           /\ \A new \in reservations' \ reservations :
                \A old \in reservations : new.id > old.id ]_vars

\* C16 witness: three creates for event 1 were answered in the order they
\* held its row: 5 units after reading 0, 5 units after reading 5, both
\* admitted, and 6 units after reading 10, refused.
C16_Witness ==
    \E c, d, f \in DOMAIN req :
        /\ Answered(c) /\ req[c].status = 201 /\ req[c].current_reservations = 0
        /\ Answered(d) /\ req[d].status = 201 /\ req[d].current_reservations = 5
        /\ Answered(f) /\ req[f].status = 400 /\ req[f].current_reservations = 10
        /\ \A x \in {c, d, f} : req[x].payload.event_id = 1
        /\ \E r \in req[c].body, s \in req[d].body : r.id < s.id


\* The credentials JWTBearer accepts.
GoodCredentials == { cred \in Credentials : ~BadCredential(cred) }

\* C17: an update or delete can start whenever its slot accepts a request
\* and can commit whenever it has selected its row, whatever event rows
\* creates hold; it holds no event row itself and none of its steps changes
\* the row locks.
C17_UpdateDeleteTakeNoHold ==
    /\ [](\A c \in Clients :
            /\ req[c].pc = "upd" =>
                    ENABLED (update_reservation_commit(c) \/ update_reservation_stale(c))
            /\ req[c].pc = "del" => ENABLED delete_reservation_commit(c)
            /\ Accepts(c) =>
                    \A cred \in GoodCredentials, rid \in ReservationIds :
                        /\ ENABLED delete_reservation_select(c, cred, rid)
                        /\ \A payload \in UpdatePayloads :
                                ENABLED update_reservation_select(c, cred, rid, payload)
            /\ req[c].op \in {"update", "delete"} => HoldsNothing(c))
    /\ [][ \A c \in Clients :
            ( req'[c] # req[c] /\ req'[c].op \in {"update", "delete"} )
                => row_lock' = row_lock ]_vars

\* C17 witness: a create holds the row of its event and has read the sum,
\* and an update of a reservation of that event has committed since: the
\* event's stored sum is no longer the sum the create read.
C17_Witness ==
    \E c, d \in DOMAIN req :
        /\ req[d].op = "create" /\ req[d].pc = "check"
        /\ row_lock[req[d].payload.event_id] = d
        /\ req[c].op = "update" /\ req[c].pc = "done" /\ req[c].status = 200
        /\ \E r \in Stored(req[c].reservation_id) :
                /\ r.event_id = req[d].payload.event_id
                /\ r.num_guests = req[c].patch.value
        /\ Taken(req[d].payload.event_id) # req[d].current_reservations


\* C18: no step of the reservation API changes the event table: it has the
\* same events with the same capacities after every step, so it is always
\* the table the system started with.
C18_EventsNeverChange ==
    /\ [](events = EventRows)
    /\ [][events' = events]_vars

\* C18 witness: a create, an update and a delete have committed (the
\* update and the delete are answered, the id sequence has moved) and the
\* event table is the initial one.
C18_Witness ==
    \E c, d \in DOMAIN req :
        /\ Deleted(c)
        /\ req[d].op = "update" /\ req[d].pc = "done" /\ req[d].status = 200
        /\ next_id > 1
        /\ events = EventRows

\* An operation that has started and not ended, and the steps it can take.
Unfinished(c) == req[c].pc \notin {"idle", "done"}

OperationStep(c) ==
    \/ create_reservation_no_event(c)
    \/ create_reservation_for_update(c)
    \/ create_reservation_sum(c)
    \/ create_reservation_reject(c)
    \/ create_reservation_commit(c)
    \/ update_reservation_commit(c)
    \/ update_reservation_stale(c)
    \/ delete_reservation_commit(c)

\* C19: a create holds the row of at most one event, only an unfinished
\* create holds a row and it can always take its next step, and whenever
\* some operation is unfinished, some unfinished operation can take a step.
C19_NoDeadlock ==
    /\ \A c \in DOMAIN req :
            Cardinality({ e \in DOMAIN row_lock : row_lock[e] = c }) <= 1
    /\ \A e \in DOMAIN row_lock :
            row_lock[e] # "" =>
                /\ Unfinished(row_lock[e]) /\ req[row_lock[e]].op = "create"
                /\ ENABLED OperationStep(row_lock[e])
    /\ (\E c \in DOMAIN req : Unfinished(c))
            => ENABLED (\E c \in Clients : Unfinished(c) /\ OperationStep(c))

\* C19 witness: a create waits for the row of event 1 that another create
\* holds, while the holder can take its next step.
C19_Witness ==
    \E c, d \in DOMAIN req :
        /\ req[c].op = "create" /\ req[c].pc = "lock"
        /\ req[c].payload.event_id = 1
        /\ row_lock[1] = d /\ d # c
        /\ ~ ENABLED OperationStep(c)
        /\ ENABLED OperationStep(d)

====
